---- MODULE Spec2Model ----
(***************************************************************************)
(* The FastAPI integration of flytekit-learn (flytekit_learn/fastapi.py):  *)
(* the train, predict and label endpoint handlers that the Endpoint Binder *)
(* registers, run by the worker threads of the host server against the     *)
(* shared Model Handle and the process-wide labelling session table.       *)
(*                                                                         *)
(* Every handler is a sequence of steps; a step ends where the handler     *)
(* touches shared state (the session table, a generator, the model cache,  *)
(* the remote backend), so that requests served by different worker        *)
(* threads interleave exactly there.  A specification with one worker      *)
(* thread serves requests one at a time.                                   *)
(***************************************************************************)
EXTENDS Integers, Sequences, FiniteSets, TLC

(***************************************************************************)
(* Bounds of the model.                                                    *)
(***************************************************************************)
MaxItems == 2
MaxGens == 3
MaxTrains == 2
MaxHist == 3
MaxTime == 3

(***************************************************************************)
(* Program constants.                                                      *)
(***************************************************************************)
DefaultBatchSize == 3
StatusOk == 200
StatusClientError == 400
StatusServerError == 500
StatusUnprocessable == 422

Threads == {1, 2}
SerialThreads == {1}
SessionIds == {"a", "b"}
RacedSessionIds == {"a"}
BatchSizes == {1, DefaultBatchSize}

(***************************************************************************)
(* Values.  Python's None, and Optional[...] request parameters.           *)
(***************************************************************************)
None == <<"None", 0>>
Absent == [some |-> FALSE, val |-> 0]
Some(v) == [some |-> TRUE, val |-> v]
Batch(i) == <<"batch", i>>

VARIABLES
    APP_LABELLER_CACHE,  \* session_id -> entry (fastapi.py:24)
    gens,                \* the generator objects created so far, by identity
    latest_model,        \* model._latest_model
    metrics,             \* model._metrics
    trains,              \* number of model.train calls that returned
    history,             \* the remote backend's executions
    tally,               \* per session id: batches delivered, submissions accepted
    pc,                  \* per worker thread: the handler line it is at
    req,                 \* per worker thread: the request being served
    loc,                 \* per worker thread: the handler's local variables
    calls,               \* per worker thread: collaborator operations invoked
    resp,                \* per worker thread: the response or raised error
    pre                  \* shared state as it was when a request started alone

vars == <<APP_LABELLER_CACHE, gens, latest_model, metrics, trains, history,
          tally, pc, req, loc, calls, resp, pre>>

shared == <<APP_LABELLER_CACHE, gens, latest_model, metrics, trains, history,
            tally>>

(***************************************************************************)
(* The Dataset Provider's resumable labelling computation, a Python        *)
(* generator: for each batch it yields the batch, receives the submission, *)
(* and suspends once more after receiving it.  n is the number of batches, *)
(* pos the number of times it has been resumed, running whether some       *)
(* thread is executing its body.                                           *)
(***************************************************************************)
NumBatches(items, batch_size) == (items + batch_size - 1) \div batch_size

NewGenerator(items, batch_size) ==
    [n |-> NumBatches(items, batch_size), pos |-> 0, running |-> FALSE]

GenFinished(g) == g.pos = 2 * g.n + 1

GenJustStarted(g) == g.pos = 0

YieldValue(k) == IF k % 2 = 1 THEN Batch((k + 1) \div 2) ELSE None

\* Resuming a generator (next, or send of a value): it runs to its next yield
\* or to its end, where it raises StopIteration.
GenResume(g) ==
    IF g.pos < 2 * g.n
    THEN [gen |-> [g EXCEPT !.pos = g.pos + 1, !.running = FALSE],
          stop |-> FALSE, value |-> YieldValue(g.pos + 1)]
    ELSE [gen |-> [g EXCEPT !.pos = 2 * g.n + 1, !.running = FALSE],
          stop |-> TRUE, value |-> None]

(***************************************************************************)
(* Responses.  A raised HTTPException carries its status and detail; any   *)
(* other exception leaves the handler and the server answers 500.          *)
(***************************************************************************)
NoResp == [status |-> 0, detail |-> "", body |-> None]
HTTPException(status_code, detail) ==
    [status |-> status_code, detail |-> detail, body |-> None]
Uncaught(exc) == [status |-> StatusServerError, detail |-> exc, body |-> None]
Return(body) == [status |-> StatusOk, detail |-> "", body |-> body]

SubmissionPending == HTTPException(StatusClientError, "Awaiting labels from current batch")
NoSubmissionExpected ==
    HTTPException(StatusClientError, "Labels already submitted for current batch")
ModelNotTrained == HTTPException(StatusServerError, "trained model not found")

NoEntry == [present |-> FALSE, generator |-> 0,
            awaiting_submission |-> FALSE, session_complete |-> FALSE]
NoLoc == [generator |-> 0, awaiting_submission |-> FALSE, batch |-> None,
          latest_model |-> None, trained_model |-> None, metrics |-> None,
          execution |-> 0]
NoReq == [kind |-> "none"]
NoPre == [valid |-> FALSE]

Snapshot ==
    [valid |-> TRUE, cache |-> APP_LABELLER_CACHE, gens |-> gens,
     latest_model |-> latest_model, metrics |-> metrics, history |-> history,
     tally |-> tally]

InFlight == {u \in Threads : pc[u] # "idle"}

\* A request is received by an idle worker thread.  The shared state is
\* recorded when no other request is being served, and the record is dropped
\* as soon as a second request is served beside it.
Receive(t, r, first) ==
    /\ pc[t] = "idle"
    /\ req' = [req EXCEPT ![t] = r]
    /\ loc' = [loc EXCEPT ![t] = NoLoc]
    /\ calls' = [calls EXCEPT ![t] = {}]
    /\ resp' = [resp EXCEPT ![t] = NoResp]
    /\ pc' = [pc EXCEPT ![t] = first]
    /\ pre' = IF InFlight = {} THEN Snapshot ELSE NoPre
    /\ UNCHANGED shared

\* The handler returns or raises: the thread holds the response until the
\* server has sent it (Reply), and then forgets the request.
Finish(t, response) ==
    /\ pc' = [pc EXCEPT ![t] = "done"]
    /\ resp' = [resp EXCEPT ![t] = response]

Goto(t, label) ==
    /\ pc' = [pc EXCEPT ![t] = label]
    /\ UNCHANGED resp

Call(t, ops) == calls' = [calls EXCEPT ![t] = calls[t] \cup ops]

Reply(t) ==
    /\ pc[t] = "done"
    /\ pc' = [pc EXCEPT ![t] = "idle"]
    /\ req' = [req EXCEPT ![t] = NoReq]
    /\ loc' = [loc EXCEPT ![t] = NoLoc]
    /\ calls' = [calls EXCEPT ![t] = {}]
    /\ resp' = [resp EXCEPT ![t] = NoResp]
    /\ pre' = NoPre
    /\ UNCHANGED shared

(***************************************************************************)
(* _labeller_endpoint (fastapi.py:148-192).                                *)
(***************************************************************************)
ReaderInputs == {Absent} \cup {Some(n) : n \in 0..MaxItems}
Submissions == {Absent, Some(1)}

LabelRequests ==
    [kind : {"label"}, session_id : SessionIds, batch_size : BatchSizes,
     submit : BOOLEAN, reader_inputs : ReaderInputs]

\* The requests of clients that share one session id and one dataset.
RacedLabelRequests ==
    {r \in LabelRequests : /\ r.session_id \in RacedSessionIds
                           /\ r.reader_inputs = Some(MaxItems)}

LabelReceive(t, requests) ==
    \E r \in requests : Receive(t, r, "l155")

\* The dispatch without the check of line 177.
LabelDispatch_NoPendingCheck(submit, awaiting_submission) ==
    IF submit
    THEN IF ~awaiting_submission THEN "raise_no_submission" ELSE "l170"
    ELSE "l181"

\* The dispatch without the check of line 168.
LabelDispatch_NoSubmitCheck(submit, awaiting_submission) ==
    IF submit
    THEN "l170"
    ELSE IF awaiting_submission THEN "raise_pending" ELSE "l181"

\* Lines 167-178: where the handler goes once its local awaiting_submission
\* is set.
LabelDispatch(submit, awaiting_submission) ==
    IF submit
    THEN IF ~awaiting_submission THEN "raise_no_submission" ELSE "l170"
    ELSE IF awaiting_submission THEN "raise_pending" ELSE "l181"

LabelBranch(t, awaiting_submission) ==
    LET to == LabelDispatch(req[t].submit, awaiting_submission) IN
    CASE to = "raise_no_submission" -> Finish(t, NoSubmissionExpected)
      [] to = "raise_pending" -> Finish(t, SubmissionPending)
      [] OTHER -> Goto(t, to)

\* Line 155.
LabelLookup(t) ==
    /\ pc[t] = "l155"
    /\ Goto(t, IF ~APP_LABELLER_CACHE[req[t].session_id].present
               THEN "l156" ELSE "l164")
    /\ UNCHANGED <<shared, req, loc, calls, pre>>

\* Lines 156-162 with the new entry stored as awaiting a submission.
LabelCreate_StoresAwaiting(t) ==
    /\ pc[t] = "l156"
    /\ IF ~req[t].reader_inputs.some
       THEN /\ Finish(t, Uncaught("TypeError"))
            /\ UNCHANGED <<shared, loc, calls>>
       ELSE /\ Len(gens) < MaxGens
            /\ gens' = Append(gens, NewGenerator(req[t].reader_inputs.val,
                                                 req[t].batch_size))
            /\ loc' = [loc EXCEPT ![t].generator = Len(gens) + 1,
                                  ![t].awaiting_submission = FALSE]
            /\ APP_LABELLER_CACHE' =
                 [APP_LABELLER_CACHE EXCEPT ![req[t].session_id] =
                    [present |-> TRUE, generator |-> Len(gens) + 1,
                     awaiting_submission |-> TRUE,
                     session_complete |-> FALSE]]
            /\ Call(t, {"_labeller"})
            /\ LabelBranch(t, FALSE)
            /\ UNCHANGED <<latest_model, metrics, trains, history, tally>>
    /\ UNCHANGED <<req, pre>>

\* Lines 156-162, then the dispatch of lines 167-178.  **reader_inputs of
\* None raises TypeError before the Dataset Provider is called.
LabelCreate(t) ==
    /\ pc[t] = "l156"
    /\ IF ~req[t].reader_inputs.some
       THEN /\ Finish(t, Uncaught("TypeError"))
            /\ UNCHANGED <<shared, loc, calls>>
       ELSE /\ Len(gens) < MaxGens
            /\ gens' = Append(gens, NewGenerator(req[t].reader_inputs.val,
                                                 req[t].batch_size))
            /\ loc' = [loc EXCEPT ![t].generator = Len(gens) + 1,
                                  ![t].awaiting_submission = FALSE]
            /\ APP_LABELLER_CACHE' =
                 [APP_LABELLER_CACHE EXCEPT ![req[t].session_id] =
                    [present |-> TRUE, generator |-> Len(gens) + 1,
                     awaiting_submission |-> FALSE,
                     session_complete |-> FALSE]]
            /\ Call(t, {"_labeller"})
            /\ LabelBranch(t, FALSE)
            /\ UNCHANGED <<latest_model, metrics, trains, history, tally>>
    /\ UNCHANGED <<req, pre>>

\* Line 164.
LabelLoadGenerator(t) ==
    /\ pc[t] = "l164"
    /\ loc' = [loc EXCEPT ![t].generator =
                 APP_LABELLER_CACHE[req[t].session_id].generator]
    /\ Goto(t, "l165")
    /\ UNCHANGED <<shared, req, calls, pre>>

\* Line 165, then the dispatch of lines 167-178.
LabelLoadAwaiting(t) ==
    /\ pc[t] = "l165"
    /\ LET a == APP_LABELLER_CACHE[req[t].session_id].awaiting_submission IN
         /\ loc' = [loc EXCEPT ![t].awaiting_submission = a]
         /\ LabelBranch(t, a)
    /\ UNCHANGED <<shared, req, calls, pre>>

\* Lines 180 and 184-187 without the try/except: StopIteration leaves the
\* handler wherever it is raised.
StopIteration_Uncaught(t, at) ==
    Finish(t, Uncaught("StopIteration"))

\* StopIteration raised by generator.send (line 170) leaves the handler;
\* raised by next(generator) (line 181) it is caught at line 184, where
\* batch is None (line 185).
StopIteration(t, at) ==
    IF at = "l181" THEN Goto(t, "l187")
                   ELSE Finish(t, Uncaught("StopIteration"))

\* generator.send (line 170) or next(generator) (line 181) is called: a
\* generator whose body another thread is executing raises ValueError, a
\* finished one raises StopIteration at once, a just-started one that is
\* sent a value other than None raises TypeError; otherwise its body is
\* entered.
GenEnter(t, at, sent) ==
    /\ pc[t] = at
    /\ Call(t, {IF at = "l170" THEN "send" ELSE "next"})
    /\ LET g == loc[t].generator IN
         IF gens[g].running
         THEN /\ Finish(t, Uncaught("ValueError"))
              /\ UNCHANGED gens
         ELSE IF GenFinished(gens[g])
         THEN /\ StopIteration(t, at)
              /\ UNCHANGED gens
         ELSE IF sent.some /\ GenJustStarted(gens[g])
         THEN /\ Finish(t, Uncaught("TypeError"))
              /\ UNCHANGED gens
         ELSE /\ gens' = [gens EXCEPT ![g].running = TRUE]
              /\ Goto(t, IF at = "l170" THEN "l170r" ELSE "l181r")
    /\ UNCHANGED <<tally, APP_LABELLER_CACHE, latest_model, metrics, trains,
                   history, req, loc, pre>>

\* Line 170: generator.send(submission) is called.
LabelSendEnter(t) ==
    \E submission \in Submissions : GenEnter(t, "l170", submission)

\* Line 170: the generator's body reaches its next yield and send returns,
\* or reaches its end and send raises StopIteration.
LabelSendReturn(t) ==
    /\ pc[t] = "l170r"
    /\ LET g == loc[t].generator
           r == GenResume(gens[g])
       IN /\ gens' = [gens EXCEPT ![g] = r.gen]
          /\ IF r.stop THEN StopIteration(t, "l170")
                       ELSE Goto(t, "l171")
    /\ UNCHANGED <<tally, APP_LABELLER_CACHE, latest_model, metrics, trains,
                   history, req, loc, calls, pre>>

\* Lines 172-175 without the store of line 171.
LabelSubmitted_KeepsAwaiting(t) ==
    /\ pc[t] = "l171"
    /\ tally' = [tally EXCEPT ![req[t].session_id].accepted = @ + 1]
    /\ Finish(t, Return([success |-> TRUE, session_complete |-> FALSE]))
    /\ UNCHANGED <<APP_LABELLER_CACHE, gens, latest_model, metrics, trains,
                   history, req, loc, calls, pre>>

\* Lines 171-175.
LabelSubmitted(t) ==
    /\ pc[t] = "l171"
    /\ APP_LABELLER_CACHE' =
         [APP_LABELLER_CACHE EXCEPT ![req[t].session_id].awaiting_submission = FALSE]
    /\ tally' = [tally EXCEPT ![req[t].session_id].accepted = @ + 1]
    /\ Finish(t, Return([success |-> TRUE, session_complete |-> FALSE]))
    /\ UNCHANGED <<gens, latest_model, metrics, trains, history, req, loc,
                   calls, pre>>

\* Line 181: next(generator) is called.
LabelNextEnter(t) == GenEnter(t, "l181", Absent)

\* Lines 181-186: the generator's body reaches its next yield and next
\* returns the batch, or reaches its end and next raises StopIteration.
LabelNextReturn(t) ==
    /\ pc[t] = "l181r"
    /\ LET g == loc[t].generator
           r == GenResume(gens[g])
       IN /\ gens' = [gens EXCEPT ![g] = r.gen]
          /\ IF r.stop
             THEN /\ StopIteration(t, "l181")
                  /\ UNCHANGED loc
             ELSE /\ loc' = [loc EXCEPT ![t].batch = r.value]
                  /\ Goto(t, "l183")
    /\ UNCHANGED <<tally, APP_LABELLER_CACHE, latest_model, metrics, trains,
                   history, req, calls, pre>>

\* Lines 182-192 with the flag of line 183 stored in every entry of the
\* table.
LabelDelivered_AllSessions(t) ==
    /\ pc[t] = "l183"
    /\ APP_LABELLER_CACHE' =
         [s \in SessionIds |->
            IF APP_LABELLER_CACHE[s].present
            THEN [APP_LABELLER_CACHE[s] EXCEPT !.awaiting_submission = TRUE]
            ELSE APP_LABELLER_CACHE[s]]
    /\ tally' = [tally EXCEPT ![req[t].session_id].delivered = @ + 1]
    /\ Finish(t, Return([batch |-> loc[t].batch, session_complete |-> FALSE]))
    /\ UNCHANGED <<gens, latest_model, metrics, trains, history, req, loc,
                   calls, pre>>

\* Lines 182-183 and 189-192.
LabelDelivered(t) ==
    /\ pc[t] = "l183"
    /\ APP_LABELLER_CACHE' =
         [APP_LABELLER_CACHE EXCEPT ![req[t].session_id].awaiting_submission = TRUE]
    /\ tally' = [tally EXCEPT ![req[t].session_id].delivered = @ + 1]
    /\ Finish(t, Return([batch |-> loc[t].batch, session_complete |-> FALSE]))
    /\ UNCHANGED <<gens, latest_model, metrics, trains, history, req, loc,
                   calls, pre>>

\* Lines 184-187 and 189-192.
LabelExhausted(t) ==
    /\ pc[t] = "l187"
    /\ APP_LABELLER_CACHE' =
         [APP_LABELLER_CACHE EXCEPT ![req[t].session_id].session_complete = TRUE]
    /\ Finish(t, Return([batch |-> None, session_complete |-> TRUE]))
    /\ UNCHANGED <<tally, gens, latest_model, metrics, trains, history, req,
                   loc, calls, pre>>

LabelStep(t) ==
    \/ LabelLookup(t)
    \/ LabelCreate(t)
    \/ LabelLoadGenerator(t)
    \/ LabelLoadAwaiting(t)
    \/ LabelSendEnter(t)
    \/ LabelSendReturn(t)
    \/ LabelSubmitted(t)
    \/ LabelNextEnter(t)
    \/ LabelNextReturn(t)
    \/ LabelDelivered(t)
    \/ LabelExhausted(t)

(***************************************************************************)
(* The Remote Execution Gateway, as the handlers use it.  An execution has *)
(* the name of its launch plan, a phase (RUNNING until it finishes as      *)
(* SUCCEEDED or FAILED), a creation time and, once SUCCEEDED, outputs; the *)
(* trained_model output of the i-th execution of the history is            *)
(* RemoteModel(i).                                                         *)
(***************************************************************************)
ModelNames == {Absent, Some("alt")}
ModelVersions == {"latest", "v1"}
Phases == {"SUCCEEDED", "FAILED"}
RemoteModel(i) == <<"remote_model", i>>
LocalModel(k) == <<"local_model", k>>
\* A trained model of a class that prints its class name and nothing of the
\* object: two such models are distinct and print alike.
EstimatorModel(k) == <<"Estimator", k>>
\* The models the k-th model.train call that returns may return.
TrainedModels(k) == {LocalModel(k), EstimatorModel(k)}
LocalMetrics(k) == <<"local_metrics", k>>
CallerModel == <<"caller_model", 0>>

\* Lines 75 and 100.
TrainWorkflowName(model_name) ==
    IF model_name.some THEN <<model_name.val, ".train">>
                       ELSE <<"train_workflow_name">>

\* Line 127.
PredictWorkflowName(model_name) ==
    IF model_name.some THEN <<model_name.val, ".predict_workflow_name">>
                       ELSE <<"predict_workflow_name">>

\* Lines 134-138.
PredictFromFeaturesWorkflowName(model_name) ==
    IF model_name.some THEN <<model_name.val, ".predict_from_features_workflow_name">>
                       ELSE <<"predict_from_features_workflow_name">>

\* Line 97.
Version(model_version) == IF model_version = "latest" THEN None ELSE <<"version", model_version>>

Executions == [name : {TrainWorkflowName(m) : m \in ModelNames},
               phase : Phases \cup {"RUNNING"}, created_at : 1..MaxTime]

Matches(h, i, name, phase) == h[i].name = name /\ h[i].phase = phase

\* The query without its phase filter (line 109).
LatestExecutions_AnyPhase(h, name) ==
    {i \in 1..Len(h) :
        /\ h[i].name = name
        /\ \A j \in 1..Len(h) : h[j].name = name => h[j].created_at <= h[i].created_at}

\* Lines 103-112: the executions list_executions_paginated may return first
\* for launch_plan.name = name, phase = SUCCEEDED, sorted by created_at
\* descending, limit 1 (executions created at the same time come in either
\* order).
LatestExecutions(h, name) ==
    {i \in 1..Len(h) :
        /\ Matches(h, i, name, "SUCCEEDED")
        /\ \A j \in 1..Len(h) :
              Matches(h, j, name, "SUCCEEDED") => h[j].created_at <= h[i].created_at}

\* execute(..., wait=True) of a train workflow: the backend records an
\* execution, created no earlier than those it already holds.
LaunchTimes(h) == {ts \in 1..MaxTime : \A j \in 1..Len(h) : h[j].created_at <= ts}

(***************************************************************************)
(* Python dicts, as sets of <<key, value>> pairs with one pair per key.    *)
(***************************************************************************)
Keys(d) == {p[1] : p \in d}
DictGet(d, k) == (CHOOSE p \in d : p[1] = k)[2]
\* dict.update(e): the pairs of e replace those of d with the same key.
DictUpdate(d, e) == {p \in d : p[1] \notin Keys(e)} \cup e
Truthy(o) == o.some /\ o.val # {}
FeaturesTruthy(o) == o.some /\ o.val > 0

(***************************************************************************)
(* _train_endpoint (fastapi.py:64-87).                                     *)
(***************************************************************************)
Hyperparameters == {"valid", "malformed"}

TrainRequests ==
    [kind : {"train"}, local : BOOLEAN, model_name : ModelNames,
     inputs : Hyperparameters]

LocalTrainRequests == {r \in TrainRequests : r.local}
RemoteTrainRequests == {r \in TrainRequests : ~r.local}

\* Lines 64-68: the parameters of _train_endpoint.
TrainParameters == {"local", "model_name", "inputs"}

\* Line 200: the Model Handle declares hyperparameters.
HyperparametersDeclared == TRUE

\* Lines 200-210: the annotation of parameter p once the signature has been
\* rewritten.  Only a parameter named "hyperparameters" is given the model
\* built from the declared hyperparameters; inputs keeps Dict (line 67).
Annotation(p) ==
    IF HyperparametersDeclared /\ p = "hyperparameters"
    THEN "HyperparameterModel"
    ELSE IF p = "inputs" THEN "Dict" ELSE "query"

\* The request body is validated against the declared hyperparameters when
\* some parameter of the endpoint carries their model.
TrainAccepts(r) ==
    \/ r.inputs = "valid"
    \/ \A p \in TrainParameters : Annotation(p) # "HyperparameterModel"

\* The server answers a body that fails validation without calling the
\* handler.
TrainRejected(t, r) ==
    /\ pc[t] = "idle"
    /\ req' = [req EXCEPT ![t] = r]
    /\ loc' = [loc EXCEPT ![t] = NoLoc]
    /\ calls' = [calls EXCEPT ![t] = {}]
    /\ Finish(t, HTTPException(StatusUnprocessable, "validation error"))
    /\ pre' = IF InFlight = {} THEN Snapshot ELSE NoPre
    /\ UNCHANGED shared

TrainReceive(t, requests) ==
    \E r \in requests :
        IF TrainAccepts(r) THEN Receive(t, r, "t72") ELSE TrainRejected(t, r)

\* Line 85: str(o) is a text, not the object; a tuple prints its contents,
\* an Estimator its class name.
str(o) == <<"str", IF o[1] = "Estimator" THEN <<"Estimator()">> ELSE o>>

\* Lines 84-87.
TrainResponse(trained_model, m) ==
    Return([trained_model |-> str(trained_model), metrics |-> m])

\* Lines 72-77: the remote train workflow is fetched and its execution is
\* launched; execute(..., wait=True) then waits for the execution to finish.
TrainRemote(t) ==
    /\ pc[t] = "t72"
    /\ ~req[t].local
    /\ Len(history) < MaxHist
    /\ \E ts \in LaunchTimes(history) :
         history' = Append(history,
              [name |-> TrainWorkflowName(req[t].model_name),
               phase |-> "RUNNING", created_at |-> ts])
    /\ loc' = [loc EXCEPT ![t].execution = Len(history) + 1]
    /\ Call(t, {"fetch_workflow", "execute"})
    /\ Goto(t, "t77")
    /\ UNCHANGED <<tally, APP_LABELLER_CACHE, gens, latest_model, metrics,
                   trains, req, pre>>

\* Lines 77-79 with the stores of lines 82-83 run for a remote train too.
TrainRemoteReturn_StoresModel(t) ==
    /\ pc[t] = "t77"
    /\ LET i == loc[t].execution IN
       \E phase \in Phases :
         /\ history' = [history EXCEPT ![i].phase = phase]
         /\ IF phase = "SUCCEEDED"
            THEN /\ Finish(t, TrainResponse(RemoteModel(i), <<"remote_metrics", i>>))
                 /\ latest_model' = RemoteModel(i)
                 /\ metrics' = <<"remote_metrics", i>>
            ELSE /\ Finish(t, Uncaught("RemoteExecutionFailure"))
                 /\ UNCHANGED <<latest_model, metrics>>
    /\ UNCHANGED <<tally, APP_LABELLER_CACHE, gens, trains, req, loc, calls, pre>>

\* Lines 77-79 and 84-87: the execution finishes and execute returns; the
\* outputs of a SUCCEEDED execution are returned, a failed execution has no
\* outputs to read.
TrainRemoteReturn(t) ==
    /\ pc[t] = "t77"
    /\ LET i == loc[t].execution IN
       \E phase \in Phases :
         /\ history' = [history EXCEPT ![i].phase = phase]
         /\ IF phase = "SUCCEEDED"
            THEN Finish(t, TrainResponse(RemoteModel(i), <<"remote_metrics", i>>))
            ELSE Finish(t, Uncaught("RemoteExecutionFailure"))
    /\ UNCHANGED <<tally, APP_LABELLER_CACHE, gens, latest_model, metrics,
                   trains, req, loc, calls, pre>>

\* Line 81: model.train(**inputs) returns a fresh model and its metrics, or
\* raises.
TrainLocal(t) ==
    /\ pc[t] = "t72"
    /\ req[t].local
    /\ trains < MaxTrains
    /\ Call(t, {"train"})
    /\ \E ok \in BOOLEAN :
         IF ok
         THEN /\ trains' = trains + 1
              /\ \E trained \in TrainedModels(trains + 1) :
                   loc' = [loc EXCEPT ![t].trained_model = trained,
                                      ![t].metrics = LocalMetrics(trains + 1)]
              /\ Goto(t, "t82")
         ELSE /\ Finish(t, Uncaught("TrainFailure"))
              /\ UNCHANGED <<trains, loc>>
    /\ UNCHANGED <<tally, APP_LABELLER_CACHE, gens, latest_model, metrics,
                   history, req, pre>>

\* Line 82.
TrainStoreModel(t) ==
    /\ pc[t] = "t82"
    /\ latest_model' = loc[t].trained_model
    /\ Goto(t, "t83")
    /\ UNCHANGED <<tally, APP_LABELLER_CACHE, gens, metrics, trains, history,
                   req, loc, calls, pre>>

\* Lines 83-87.
TrainStoreMetrics(t) ==
    /\ pc[t] = "t83"
    /\ metrics' = loc[t].metrics
    /\ Finish(t, TrainResponse(loc[t].trained_model, loc[t].metrics))
    /\ UNCHANGED <<tally, APP_LABELLER_CACHE, gens, latest_model, trains,
                   history, req, loc, calls, pre>>

(***************************************************************************)
(* _predict_endpoint (fastapi.py:89-146).                                  *)
(***************************************************************************)
InputDicts == {Absent, Some({}), Some({<<"x", <<"value", 1>>>>}),
               Some({<<"model", CallerModel>>})}
FeatureLists == {Absent, Some(1)}

PredictRequests ==
    [kind : {"predict"}, local : BOOLEAN, model_name : ModelNames,
     model_version : ModelVersions, model_source : {"remote", "local"},
     inputs : InputDicts, features : FeatureLists]

LocalSourceRequests == {r \in PredictRequests : r.model_source = "local"}
RemoteSourceRequests == {r \in PredictRequests : r.model_source = "remote"}

PredictReceive(t, requests) ==
    \E r \in requests : Receive(t, r, "p97")

\* Lines 98-117: the model of the latest SUCCEEDED execution of the train
\* workflow; unpacking an empty list of executions raises ValueError.
PredictResolveRemote(t) ==
    /\ pc[t] = "p97"
    /\ req[t].model_source = "remote"
    /\ LET found == LatestExecutions(history, TrainWorkflowName(req[t].model_name)) IN
         IF found = {}
         THEN /\ Call(t, {"fetch_workflow", "list_executions_paginated"})
              /\ Finish(t, Uncaught("ValueError"))
              /\ UNCHANGED loc
         ELSE \E i \in found :
              /\ Call(t, {"fetch_workflow", "list_executions_paginated", "sync"})
              /\ loc' = [loc EXCEPT ![t].latest_model = RemoteModel(i)]
              /\ Goto(t, "p123")
    /\ UNCHANGED <<shared, req, pre>>

\* Lines 118-121 without the check of line 119.
PredictResolveLocal_NoCheck(t) ==
    /\ pc[t] = "p97"
    /\ req[t].model_source # "remote"
    /\ loc' = [loc EXCEPT ![t].latest_model = latest_model]
    /\ Goto(t, "p123")
    /\ UNCHANGED <<shared, req, calls, pre>>

\* Lines 118-121.
PredictResolveLocal(t) ==
    /\ pc[t] = "p97"
    /\ req[t].model_source # "remote"
    /\ IF latest_model = None
       THEN /\ Finish(t, ModelNotTrained)
            /\ UNCHANGED loc
       ELSE /\ loc' = [loc EXCEPT ![t].latest_model = latest_model]
            /\ Goto(t, "p123")
    /\ UNCHANGED <<shared, req, calls, pre>>

\* Lines 123-125 and 130-132.
WorkflowInputs(latest, inputs, features) ==
    IF Truthy(inputs)
    THEN DictUpdate({<<"model", latest>>}, inputs.val)
    ELSE IF FeaturesTruthy(features)
    THEN {<<"model", latest>>, <<"features", <<"features", features.val>>>>}
    ELSE {<<"model", latest>>}

\* Lines 124-140: the collaborators called while the request is built.
BuildCalls(inputs, features) ==
    IF Truthy(inputs) THEN {"fetch_workflow"}
    ELSE IF FeaturesTruthy(features) THEN {"get_features", "fetch_workflow"}
    ELSE {}

\* Lines 126-140: predict_wf, left unbound when neither inputs nor features
\* is given.
PredictWf(model_name, inputs, features) ==
    IF Truthy(inputs) THEN Some(PredictWorkflowName(model_name))
    ELSE IF FeaturesTruthy(features)
    THEN Some(PredictFromFeaturesWorkflowName(model_name))
    ELSE Absent

Predictions(workflow_inputs) == [predictions |-> workflow_inputs]

\* Lines 123-145: the request is built; remotely (line 143) reading the
\* unbound predict_wf raises UnboundLocalError before execute is called,
\* otherwise the execution is launched and execute(..., wait=True) waits for
\* it; locally model.predict (line 145) returns or raises.
PredictRun(t) ==
    /\ pc[t] = "p123"
    /\ LET r == req[t]
           wi == WorkflowInputs(loc[t].latest_model, r.inputs, r.features)
           built == BuildCalls(r.inputs, r.features)
       IN IF ~r.local
          THEN IF ~PredictWf(r.model_name, r.inputs, r.features).some
               THEN /\ Call(t, built)
                    /\ Finish(t, Uncaught("UnboundLocalError"))
               ELSE /\ Call(t, built \cup {"execute"})
                    /\ Goto(t, "p143")
          ELSE /\ Call(t, built \cup {"predict"})
               /\ \E ok \in BOOLEAN :
                    Finish(t, IF ok THEN Return(Predictions(wi))
                                    ELSE Uncaught("PredictFailure"))
    /\ UNCHANGED <<shared, req, loc, pre>>

\* Lines 143 and 146: the predict execution finishes and execute returns;
\* its output o0 is returned, or the failure leaves the handler.
PredictRemoteReturn(t) ==
    /\ pc[t] = "p143"
    /\ LET r == req[t]
           wi == WorkflowInputs(loc[t].latest_model, r.inputs, r.features)
       IN \E ok \in BOOLEAN :
            Finish(t, IF ok THEN Return(Predictions(wi))
                            ELSE Uncaught("RemoteExecutionFailure"))
    /\ UNCHANGED <<shared, req, loc, calls, pre>>

(***************************************************************************)
(* Initial state: an empty session table (fastapi.py:24), a Model Handle   *)
(* that has not been trained locally, idle worker threads.                 *)
(***************************************************************************)
InitHandle ==
    /\ latest_model = None
    /\ metrics = None
    /\ trains = 0

InitThreads ==
    /\ pc = [t \in Threads |-> "idle"]
    /\ req = [t \in Threads |-> NoReq]
    /\ loc = [t \in Threads |-> NoLoc]
    /\ calls = [t \in Threads |-> {}]
    /\ resp = [t \in Threads |-> NoResp]
    /\ pre = NoPre

InitLabeller ==
    /\ APP_LABELLER_CACHE = [s \in SessionIds |-> NoEntry]
    /\ gens = <<>>
    /\ tally = [s \in SessionIds |-> [delivered |-> 0, accepted |-> 0]]

Init ==
    /\ InitLabeller
    /\ InitHandle
    /\ InitThreads
    /\ history = <<>>

\* The labelling endpoint served by one worker thread.
Next ==
    \E t \in SerialThreads :
        \/ LabelReceive(t, LabelRequests)
        \/ LabelStep(t)
        \/ Reply(t)

Spec == Init /\ [][Next]_vars

\* The labelling endpoint served by the thread pool, requests racing on one
\* session id.
NextLabelRace ==
    \E t \in Threads :
        \/ LabelReceive(t, RacedLabelRequests)
        \/ LabelStep(t)
        \/ Reply(t)

SpecLabelRace == Init /\ [][NextLabelRace]_vars

\* One caller on one session id, issuing one request at a time: it supplies
\* reader_inputs, asks for a batch, and submits labels for every batch it
\* has been delivered before it asks for the next.
AlternatingRequests ==
    {r \in LabelRequests :
        /\ r.session_id \in RacedSessionIds
        /\ r.reader_inputs.some
        /\ r.submit = (tally[r.session_id].delivered > tally[r.session_id].accepted)}

NextAlternating ==
    \E t \in SerialThreads :
        \/ LabelReceive(t, AlternatingRequests)
        \/ LabelStep(t)
        \/ Reply(t)

\* The caller keeps issuing requests and the server keeps serving them.
SpecAlternating ==
    Init /\ [][NextAlternating]_vars /\ WF_vars(NextAlternating)

(***************************************************************************)
(* The train and predict endpoints.                                        *)
(***************************************************************************)
\* Local training and prediction from the cached model, served by one
\* worker thread.
NextLocal ==
    \E t \in SerialThreads :
        \/ TrainReceive(t, LocalTrainRequests)
        \/ TrainLocal(t)
        \/ TrainStoreModel(t)
        \/ TrainStoreMetrics(t)
        \/ PredictReceive(t, LocalSourceRequests)
        \/ PredictResolveLocal(t)
        \/ PredictRun(t)
        \/ PredictRemoteReturn(t)
        \/ Reply(t)

SpecLocal == Init /\ [][NextLocal]_vars

\* Remote training and prediction from the latest remote model, served by
\* one worker thread.
NextRemote ==
    \E t \in SerialThreads :
        \/ TrainReceive(t, RemoteTrainRequests)
        \/ TrainRemote(t)
        \/ TrainRemoteReturn(t)
        \/ PredictReceive(t, RemoteSourceRequests)
        \/ PredictResolveRemote(t)
        \/ PredictRun(t)
        \/ PredictRemoteReturn(t)
        \/ Reply(t)

SpecRemote == Init /\ [][NextRemote]_vars

\* Local train requests served by the thread pool on one Model Handle.
NextTrainRace ==
    \E t \in Threads :
        \/ TrainReceive(t, LocalTrainRequests)
        \/ TrainLocal(t)
        \/ TrainStoreModel(t)
        \/ TrainStoreMetrics(t)
        \/ Reply(t)

SpecTrainRace == Init /\ [][NextTrainRace]_vars

\* All three endpoints on one Model Handle, served by one worker thread: the
\* handle's own workflows at their latest version, and one labelling session.
HandleTrainRequests == {r \in TrainRequests : ~r.model_name.some}
HandlePredictRequests ==
    {r \in PredictRequests : ~r.model_name.some /\ r.model_version = "latest"}
HandleLabelRequests ==
    {r \in RacedLabelRequests : r.batch_size = DefaultBatchSize}

NextHandle ==
    \E t \in SerialThreads :
        \/ TrainReceive(t, HandleTrainRequests)
        \/ TrainRemote(t)
        \/ TrainRemoteReturn(t)
        \/ TrainLocal(t)
        \/ TrainStoreModel(t)
        \/ TrainStoreMetrics(t)
        \/ PredictReceive(t, HandlePredictRequests)
        \/ PredictResolveRemote(t)
        \/ PredictResolveLocal(t)
        \/ PredictRun(t)
        \/ PredictRemoteReturn(t)
        \/ LabelReceive(t, HandleLabelRequests)
        \/ LabelStep(t)
        \/ Reply(t)

SpecHandle == Init /\ [][NextHandle]_vars

(***************************************************************************)
(* Properties of the labelling endpoint.                                   *)
(***************************************************************************)
\* The request thread t has served alone, from the state recorded in pre.
ServedAlone(t, kind) ==
    /\ pc[t] = "done"
    /\ req[t].kind = kind
    /\ pre.valid

SessionBefore(t) == pre.cache[req[t].session_id]

SessionStateUnchanged ==
    /\ APP_LABELLER_CACHE = pre.cache
    /\ gens = pre.gens

\* C1: a batch request (submit=false) on a session that is awaiting a
\* submission is rejected with 400 SubmissionPending, does not advance any
\* computation and leaves the session table, its flags included, as it was.
C1_PendingBatchRequestRejected ==
    \A t \in Threads :
        ( /\ ServedAlone(t, "label")
          /\ ~req[t].submit
          /\ SessionBefore(t).present
          /\ SessionBefore(t).awaiting_submission )
        => /\ resp[t] = SubmissionPending
           /\ calls[t] = {}
           /\ SessionStateUnchanged

C1_Witness ==
    \E t \in Threads :
        /\ ServedAlone(t, "label")
        /\ ~req[t].submit
        /\ SessionBefore(t).present
        /\ SessionBefore(t).awaiting_submission
        /\ gens[SessionBefore(t).generator].pos = 1
        /\ resp[t] = SubmissionPending

NotAwaitingBefore(t) ==
    ~(SessionBefore(t).present /\ SessionBefore(t).awaiting_submission)

\* C2 as stated: every submit on a session that is not awaiting a submission
\* (unknown, ready for a batch, or complete) is rejected with 400
\* NoSubmissionExpected.
C2_SubmitNotExpectedRejected ==
    \A t \in Threads :
        ( /\ ServedAlone(t, "label")
          /\ req[t].submit
          /\ NotAwaitingBefore(t) )
        => resp[t] = NoSubmissionExpected

\* C2 as amended: such a submit is rejected with 400 NoSubmissionExpected
\* when the session is in the table or the request carries reader_inputs; a
\* submit that names an unknown session id and carries no reader_inputs
\* fails with TypeError (a 500) at line 156 and creates no session.
C2_SubmitNotExpectedRejectedGivenReaderInputs ==
    \A t \in Threads :
        ( /\ ServedAlone(t, "label")
          /\ req[t].submit
          /\ NotAwaitingBefore(t) )
        => IF SessionBefore(t).present \/ req[t].reader_inputs.some
           THEN resp[t] = NoSubmissionExpected
           ELSE resp[t] = Uncaught("TypeError") /\ SessionStateUnchanged

C2_Witness ==
    \E t \in Threads :
        /\ ServedAlone(t, "label")
        /\ req[t].submit
        /\ SessionBefore(t).present
        /\ ~SessionBefore(t).awaiting_submission
        /\ gens[SessionBefore(t).generator].pos = 2
        /\ resp[t] = NoSubmissionExpected

SessionComplete(cache, s) == cache[s].present /\ cache[s].session_complete

\* The three parts of the session's completion: it becomes complete only
\* where a batch request finds the computation exhausted (line 187); once
\* complete it stays complete; and a batch request served on a complete
\* session returns {batch: null, session_complete: true} and leaves the
\* session state as it was.
C3_BecomesCompleteAtExhaustion ==
    \A s \in SessionIds :
        (~SessionComplete(APP_LABELLER_CACHE, s) /\ SessionComplete(APP_LABELLER_CACHE', s))
        => \E t \in Threads : /\ pc[t] = "l187"
                              /\ pc'[t] = "done"
                              /\ req[t].session_id = s
                              /\ ~req[t].submit
                              /\ GenFinished(gens[loc[t].generator])

C3_CompleteIsTerminal ==
    \A s \in SessionIds :
        SessionComplete(APP_LABELLER_CACHE, s) => SessionComplete(APP_LABELLER_CACHE', s)

C3_LaterBatchRequestsIdempotent ==
    \A t \in Threads :
        ( /\ ServedAlone(t, "label")
          /\ ~req[t].submit
          /\ SessionComplete(pre.cache, req[t].session_id) )
        => /\ resp[t] = Return([batch |-> None, session_complete |-> TRUE])
           /\ SessionStateUnchanged

\* C3: a session becomes complete exactly once, at the first batch request
\* that finds the computation exhausted; complete is terminal; every later
\* batch request returns {batch: null, session_complete: true} and changes
\* nothing.
C3_CompleteOnceAndTerminal ==
    /\ []C3_LaterBatchRequestsIdempotent
    /\ [][C3_BecomesCompleteAtExhaustion /\ C3_CompleteIsTerminal]_vars

\* Every request has been answered.
Quiescent == \A t \in Threads : pc[t] = "idle"

\* C4: no session of the table is both awaiting a submission and complete,
\* so that exactly one of awaiting submission, complete and ready for the
\* next batch holds of it.  Stated of the states in which every request has
\* been answered: a session that breaks it there stays that way.
C4_ExactlyOneSessionState ==
    Quiescent =>
        \A s \in SessionIds :
            ~(APP_LABELLER_CACHE[s].awaiting_submission
              /\ APP_LABELLER_CACHE[s].session_complete)

\* The batch request served by thread t has advanced the computation: its
\* next(generator) has returned a yield (line 181), and the handler has not
\* yet recorded the delivery (line 183).
Advanced(t) ==
    /\ pc[t] = "l183"
    /\ req[t].kind = "label"
    /\ ~req[t].submit

\* C5: two batch requests served side by side on one session id never both
\* advance its computation: no two handlers stand past a next() that
\* returned on the same generator.
C5_BatchRequestsMutuallyExclusive ==
    \A t, u \in Threads :
        (t # u /\ Advanced(t) /\ Advanced(u))
        => \/ req[t].session_id # req[u].session_id
           \/ loc[t].generator # loc[u].generator

(***************************************************************************)
(* Properties of the train and predict endpoints.                          *)
(***************************************************************************)
RemoteOps == {"fetch_workflow", "execute", "list_executions_paginated", "sync"}

\* The model a served predict request was scored with.
ScoredWith(t) == DictGet(resp[t].body.predictions, "model")

\* C6: a predict request with local=true and model_source="local" that
\* follows a local train scores with the model that train stored, and calls
\* no operation of the Remote Execution Gateway.
C6_LocalPredictUsesTrainedModelWithoutRemoteCall ==
    \A t \in Threads :
        ( /\ ServedAlone(t, "predict")
          /\ req[t].local
          /\ req[t].model_source = "local"
          /\ pre.latest_model # None )
        => /\ calls[t] \cap RemoteOps = {}
           /\ resp[t].status = StatusOk => ScoredWith(t) = pre.latest_model

\* C7: a predict request that supplies neither inputs nor features is
\* rejected without any remote execution or local predict call.
C7_PredictWithoutInputsRejected ==
    \A t \in Threads :
        ( /\ pc[t] = "done"
          /\ req[t].kind = "predict"
          /\ ~req[t].inputs.some
          /\ ~req[t].features.some )
        => /\ resp[t].status # StatusOk
           /\ calls[t] \cap {"execute", "predict"} = {}

\* C8: the cached model and metrics come from the same local train call,
\* or are both empty.  Stated of the states in which every request has been
\* answered, where no train request stands between its two stores (lines 82
\* and 83): a pair that is mismatched there stays in the cache.
C8_ModelAndMetricsPaired ==
    Quiescent =>
        \/ latest_model = None /\ metrics = None
        \/ \E k \in 1..MaxTrains :
              latest_model \in TrainedModels(k) /\ metrics = LocalMetrics(k)

\* C9: a predict request with model_source="local" on a Model Handle that
\* holds no locally trained model fails with 500 ModelNotTrained, and
\* invokes neither the local predict operation nor anything remote.
C9_LocalSourceWithoutModelFails ==
    \A t \in Threads :
        ( /\ ServedAlone(t, "predict")
          /\ req[t].model_source = "local"
          /\ pre.latest_model = None )
        => /\ resp[t] = ModelNotTrained
           /\ calls[t] = {}

C9_Witness ==
    \E t \in Threads :
        /\ ServedAlone(t, "predict")
        /\ req[t].model_source = "local"
        /\ req[t].local
        /\ Truthy(req[t].inputs)
        /\ pre.latest_model = None
        /\ resp[t] = ModelNotTrained

\* Execution i is a SUCCEEDED execution of the train workflow that request
\* r names, and none of those was created later.
LatestSucceededFor(r, i) ==
    /\ i \in 1..Len(history)
    /\ history[i].name = TrainWorkflowName(r.model_name)
    /\ history[i].phase = "SUCCEEDED"
    /\ \A j \in 1..Len(history) :
          ( /\ history[j].name = TrainWorkflowName(r.model_name)
            /\ history[j].phase = "SUCCEEDED" )
          => history[j].created_at <= history[i].created_at

ScoredRemote(t) ==
    /\ pc[t] = "done"
    /\ req[t].kind = "predict"
    /\ req[t].model_source = "remote"
    /\ resp[t].status = StatusOk

CarriesModel(r) == Truthy(r.inputs) /\ "model" \in Keys(r.inputs.val)

\* C10 as stated: with model_source="remote", predict scores with the
\* trained_model output of the latest SUCCEEDED execution of the train
\* workflow.
C10_ScoresWithLatestSucceeded ==
    \A t \in Threads :
        ScoredRemote(t)
        => \E i \in 1..Len(history) :
              LatestSucceededFor(req[t], i) /\ ScoredWith(t) = RemoteModel(i)

\* C10 as amended: it does so unless the request's inputs carry a "model"
\* entry of their own, which replaces the resolved model (line 125).
C10_ScoresWithLatestSucceededUnlessOverridden ==
    \A t \in Threads :
        ScoredRemote(t)
        => IF CarriesModel(req[t])
           THEN ScoredWith(t) = DictGet(req[t].inputs.val, "model")
           ELSE \E i \in 1..Len(history) :
                   LatestSucceededFor(req[t], i) /\ ScoredWith(t) = RemoteModel(i)

\* The spec's example: SUCCEEDED at t1, FAILED at t2, SUCCEEDED at t3 > t1,
\* and the model of the execution at t3 is the one scored with.
C10_Witness ==
    \E t \in Threads :
        /\ ScoredRemote(t)
        /\ ~CarriesModel(req[t])
        /\ Len(history) = 3
        /\ \A i \in 1..3 : history[i].name = TrainWorkflowName(req[t].model_name)
        /\ history[1].phase = "SUCCEEDED"
        /\ history[2].phase = "FAILED"
        /\ history[3].phase = "SUCCEEDED"
        /\ history[1].created_at < history[2].created_at
        /\ history[2].created_at < history[3].created_at
        /\ ScoredWith(t) = RemoteModel(3)

(***************************************************************************)
(* Further properties of the labelling endpoint.                           *)
(***************************************************************************)
\* The submit served by thread t was rejected with NoSubmissionExpected.
SubmitRejected(t) ==
    /\ ServedAlone(t, "label")
    /\ resp[t] = NoSubmissionExpected

\* The session table and the generators after a first request on session s
\* created its entry, and nothing else happened.
CreatedOnly(t) ==
    /\ gens = Append(pre.gens, NewGenerator(req[t].reader_inputs.val,
                                            req[t].batch_size))
    /\ APP_LABELLER_CACHE =
         [pre.cache EXCEPT ![req[t].session_id] =
            [present |-> TRUE, generator |-> Len(pre.gens) + 1,
             awaiting_submission |-> FALSE, session_complete |-> FALSE]]

\* C11 as stated: a label request rejected with NoSubmissionExpected leaves
\* the session table and the computations of its sessions as they were.
C11_RejectedSubmitChangesNothing ==
    \A t \in Threads : SubmitRejected(t) => SessionStateUnchanged

\* C11 as amended: it does so when the session was in the table; a rejected
\* submit that is the first request on its session id has created the
\* session (lines 156-162), ready for a batch with its computation not yet
\* started, and has changed nothing else.
C11_RejectedSubmitChangesNothingButCreation ==
    \A t \in Threads :
        SubmitRejected(t)
        => IF SessionBefore(t).present THEN SessionStateUnchanged
                                       ELSE CreatedOnly(t)

C11_Witness ==
    \E t \in Threads :
        /\ SubmitRejected(t)
        /\ ~SessionBefore(t).present
        /\ \E s \in SessionIds : s # req[t].session_id /\ pre.cache[s].present
        /\ APP_LABELLER_CACHE[req[t].session_id].present

\* C12: for every session id, over any interleaving of label requests, the
\* number of accepted submissions never exceeds the number of delivered
\* batches, which never exceeds the number of accepted submissions plus one.
C12_DeliveryAndAcceptanceAlternate ==
    \A s \in SessionIds :
        /\ tally[s].accepted <= tally[s].delivered
        /\ tally[s].delivered <= tally[s].accepted + 1

(***************************************************************************)
(* Further properties of the train and predict endpoints.                  *)
(***************************************************************************)
\* Thread t takes a step of lines 82-83 of a train request with local=true
\* whose model.train call has returned.
LocalTrainStores(t) ==
    /\ req[t].kind = "train"
    /\ req[t].local
    /\ "train" \in calls[t]
    /\ loc[t].trained_model # None
    /\ pc[t] \in {"t82", "t83"}
    /\ pc'[t] # pc[t]

\* C13: the cached model and metrics of the Model Handle are changed only by
\* a train request with local=true whose local train call returned; every
\* other step of every request leaves them as they were.
C13_CacheWrittenOnlyByLocalTrain ==
    [][(latest_model' # latest_model \/ metrics' # metrics)
       => \E t \in Threads : LocalTrainStores(t)]_vars

\* A remote train request has been served while the cache holds the model
\* and metrics of a local train.
C13_Witness ==
    \E t \in Threads :
        /\ pc[t] = "done"
        /\ req[t].kind = "train"
        /\ ~req[t].local
        /\ resp[t].status = StatusOk
        /\ latest_model = LocalModel(1)
        /\ metrics = LocalMetrics(1)

\* C14: with hyperparameters declared, a train request whose inputs are
\* malformed (a declared hyperparameter missing or of the wrong type) is
\* rejected, and neither the local train operation nor a remote execution
\* is attempted for it.
C14_MalformedHyperparametersRejected ==
    \A t \in Threads :
        ( /\ pc[t] = "done"
          /\ req[t].kind = "train"
          /\ req[t].inputs = "malformed" )
        => /\ resp[t].status # StatusOk
           /\ calls[t] \cap {"train", "execute"} = {}

\* The history holds no SUCCEEDED execution of the train workflow that
\* request r names.
NoSucceededFor(r) ==
    \A i \in 1..Len(history) :
        ~Matches(history, i, TrainWorkflowName(r.model_name), "SUCCEEDED")

\* C15: a predict request with model_source="remote" that finds no SUCCEEDED
\* execution of the train workflow fails (the unpacking of line 103 raises,
\* a 500), and neither a remote predict execution nor the local predict
\* operation is invoked for it.
C15_NoSucceededExecutionFails ==
    \A t \in Threads :
        ( /\ pc[t] = "done"
          /\ req[t].kind = "predict"
          /\ req[t].model_source = "remote"
          /\ NoSucceededFor(req[t]) )
        => /\ resp[t] = Uncaught("ValueError")
           /\ calls[t] \cap {"execute", "predict", "get_features"} = {}

\* The request found only a FAILED execution of its train workflow, beside a
\* SUCCEEDED execution of another model's train workflow.
C15_Witness ==
    \E t \in Threads :
        /\ pc[t] = "done"
        /\ req[t].kind = "predict"
        /\ req[t].model_source = "remote"
        /\ NoSucceededFor(req[t])
        /\ \E i \in 1..Len(history) :
              Matches(history, i, TrainWorkflowName(req[t].model_name), "FAILED")
        /\ \E i \in 1..Len(history) : history[i].phase = "SUCCEEDED"
        /\ resp[t].status = StatusServerError

\* The generator of the session that thread t's request names, as it was
\* before the request.
GeneratorBefore(t) == pre.gens[SessionBefore(t).generator]

\* A submit on a session that is awaiting a submission resumes the session's
\* generator once, by send, is answered {success: true, session_complete:
\* false}, and clears awaiting_submission and nothing else.
SubmitAccepted(t) ==
    /\ resp[t] = Return([success |-> TRUE, session_complete |-> FALSE])
    /\ calls[t] = {"send"}
    /\ gens = [pre.gens EXCEPT ![SessionBefore(t).generator].pos = @ + 1]
    /\ APP_LABELLER_CACHE =
         [pre.cache EXCEPT ![req[t].session_id].awaiting_submission = FALSE]

\* C16: a submit on a session that is awaiting a submission delivers the
\* submission to the suspended computation exactly once, returns {success:
\* true, session_complete: false} and leaves the session ready for a batch
\* with session_complete as it was; the batch request that follows an
\* accepted submission produces the following batch, if there is one.
C16_SubmitDeliveredOnce ==
    \A t \in Threads :
        /\ ( /\ ServedAlone(t, "label")
             /\ req[t].submit
             /\ SessionBefore(t).present
             /\ SessionBefore(t).awaiting_submission )
           => SubmitAccepted(t)
        /\ ( /\ ServedAlone(t, "label")
             /\ ~req[t].submit
             /\ SessionBefore(t).present
             /\ ~SessionBefore(t).awaiting_submission
             /\ pre.tally[req[t].session_id].accepted > 0
             /\ pre.tally[req[t].session_id].accepted < GeneratorBefore(t).n )
           => resp[t] = Return([batch |-> Batch(pre.tally[req[t].session_id].accepted + 1),
                                session_complete |-> FALSE])

\* The submission for the first of two batches has been accepted.
C16_Witness ==
    \E t \in Threads :
        /\ ServedAlone(t, "label")
        /\ req[t].submit
        /\ SessionBefore(t).present
        /\ SessionBefore(t).awaiting_submission
        /\ GeneratorBefore(t).n = 2
        /\ GeneratorBefore(t).pos = 1
        /\ resp[t].status = StatusOk

\* Thread t holds the response {batch: null, session_complete: true}.
ToldComplete(t) ==
    /\ pc[t] = "done"
    /\ resp[t] = Return([batch |-> None, session_complete |-> TRUE])

\* C17: a caller that issues one request at a time and alternates batch
\* requests and submissions eventually receives {batch: null,
\* session_complete: true}: from no state it reaches are its requests
\* rejected or failing for ever.
C17_AlternatingCallerCompletes ==
    <>(\E t \in Threads : ToldComplete(t))

\* The caller has been told the session is complete after two batches and
\* two submissions.
C17_Witness ==
    \E t \in Threads :
        /\ ToldComplete(t)
        /\ tally[req[t].session_id].delivered = 2
        /\ tally[req[t].session_id].accepted = 2
        /\ APP_LABELLER_CACHE[req[t].session_id].session_complete

\* C18: once a session id has an entry in the table, the entry is never
\* removed and always refers to the computation it was created with: no
\* request, concurrent first requests included, constructs a second one.
C18_SessionKeepsItsComputation ==
    [][\A s \in SessionIds :
          APP_LABELLER_CACHE[s].present
          => /\ APP_LABELLER_CACHE'[s].present
             /\ APP_LABELLER_CACHE'[s].generator = APP_LABELLER_CACHE[s].generator]_vars

\* Session s, its entry and its generator, is as it was before the request.
SessionUntouched(s) ==
    /\ APP_LABELLER_CACHE[s] = pre.cache[s]
    /\ tally[s] = pre.tally[s]
    /\ pre.cache[s].present
       => gens[pre.cache[s].generator] = pre.gens[pre.cache[s].generator]

\* Whether request r is accepted, from the entry e of the session it names:
\* a first request is accepted when it asks for a batch and carries
\* reader_inputs, a later one when it submits exactly if a submission is
\* awaited.
AcceptedFrom(r, e) ==
    IF e.present THEN r.submit = e.awaiting_submission
                 ELSE ~r.submit /\ r.reader_inputs.some

\* C19: a label request naming one session id leaves the entry, the
\* computation and the counts of every other session id as they were, and is
\* accepted or rejected according to the state of its own session alone.
C19_SessionsIndependent ==
    \A t \in Threads :
        ServedAlone(t, "label")
        => /\ \A s \in SessionIds \ {req[t].session_id} : SessionUntouched(s)
           /\ (resp[t].status = StatusOk) = AcceptedFrom(req[t], SessionBefore(t))

\* A batch has been delivered on one session while another session was
\* awaiting a submission.
C19_Witness ==
    \E t \in Threads :
        /\ ServedAlone(t, "label")
        /\ ~req[t].submit
        /\ SessionBefore(t).present
        /\ resp[t].status = StatusOk
        /\ ~resp[t].body.session_complete
        /\ \E s \in SessionIds \ {req[t].session_id} :
              pre.cache[s].present /\ pre.cache[s].awaiting_submission

====
